---- MODULE Spec2Model ----
(***************************************************************************)
(* Model of src/main.py: the Cloud Run handler gcs_trigger_process, which  *)
(* on a storage notification loads a CSV object into a BigQuery table.     *)
(*                                                                         *)
(* Python strings are sequences of one-character strings, so startswith,   *)
(* endswith, lower and the f-string joins are computed, not assumed.       *)
(* The storage bucket and the warehouse are collaborators: their state is  *)
(* part of the model and each call to them is one atomic step, between     *)
(* which concurrent invocations of the handler interleave.                 *)
(***************************************************************************)
EXTENDS Integers, Sequences, FiniteSets, TLC

\* Bounds of the model.
NumInvocations == 2      \* invocations of the handler, numbered by arrival
MaxRows == 1             \* data rows of a stored CSV object: 0..MaxRows

Invocations == 1..NumInvocations

----------------------------------------------------------------------------
\* Python values

\* None: a value no string equals (strings hold one-character strings only).
None == <<"<None>">>

\* bool(v) of an optional string: None and "" are falsy.
Truthy(v) == v # None /\ v # <<>>

\* str.startswith / str.endswith
startswith(s, p) == Len(s) >= Len(p) /\ SubSeq(s, 1, Len(p)) = p
endswith(s, p) == Len(s) >= Len(p) /\ SubSeq(s, Len(s) - Len(p) + 1, Len(s)) = p

\* str.lower, on the alphabet the events use
lowerChar(c) ==
    CASE c = "C" -> "c"
      [] c = "S" -> "s"
      [] c = "V" -> "v"
      [] c = "R" -> "r"
      [] c = "X" -> "x"
      [] OTHER -> c
lower(s) == [k \in 1..Len(s) |-> lowerChar(s[k])]

\* The literals of lines 34 and 38.
RawDataPrefix == <<"r", "a", "w", "_", "d", "a", "t", "a", "/">>
CsvSuffix == <<".", "c", "s", "v">>

----------------------------------------------------------------------------
\* Inputs

\* Values an environment variable may have at import: unset, empty, set.
ProjectValues == {None, <<>>, <<"p">>}
DatasetValues == {<<>>, <<"d">>}
TableValues == {None, <<"t">>}

BucketB == <<"b">>
NameCsv == RawDataPrefix \o <<"x">> \o CsvSuffix
NameUpperExt == RawDataPrefix \o <<"x", ".", "C", "S", "V">>
NameUpperPrefix == <<"R", "a", "w", "_", "d", "a", "t", "a", "/", "x">> \o CsvSuffix
NameTxt == RawDataPrefix \o <<"x", ".", "t", "x", "t">>

\* cloud_event.data after "or {}": the values of its "bucket" and "name" keys
\* (None when the key, or the whole payload, is absent).
Events ==
    { [bucket |-> None,    name |-> None],
      [bucket |-> <<>>,    name |-> NameTxt],
      [bucket |-> BucketB, name |-> <<>>],
      [bucket |-> BucketB, name |-> NameUpperPrefix],
      [bucket |-> BucketB, name |-> NameTxt],
      [bucket |-> BucketB, name |-> NameCsv],
      [bucket |-> BucketB, name |-> NameUpperExt] }

----------------------------------------------------------------------------
\* The handler's pure steps

\* Mutant of BadPayload: "and" for "or".
MutBadPayloadBothMissing(bucket, name) == ~Truthy(bucket) /\ ~Truthy(name)

\* line 29: if not bucket or not name
BadPayload(bucket, name) == ~Truthy(bucket) \/ ~Truthy(name)

\* Mutant of PassesFilter: the prefix compared on the lowered name too.
MutPassesFilterAnyCasePrefix(name) ==
    /\ startswith(lower(name), RawDataPrefix)
    /\ endswith(lower(name), CsvSuffix)

\* lines 34 and 38: the two filter tests, both passed
PassesFilter(name) ==
    /\ startswith(name, RawDataPrefix)
    /\ endswith(lower(name), CsvSuffix)

\* Mutant of TableRef: dataset and table in the wrong order.
MutTableRefSwapped(project, dataset, table) ==
    project \o <<".">> \o table \o <<".">> \o dataset

\* line 52: f"{BQ_PROJECT_ID}.{BQ_DATASET_ID}.{BQ_TABLE_ID}"
TableRef(project, dataset, table) ==
    project \o <<".">> \o dataset \o <<".">> \o table

\* line 56: f"gs://{bucket}/{name}"
Uri(bucket, name) == <<"g", "s", ":", "/", "/">> \o bucket \o <<"/">> \o name

\* Mutants of WriteDisposition: the existence check ignored.
MutWriteDispositionAlwaysTruncate(exists) == "WRITE_TRUNCATE"
MutWriteDispositionAlwaysAppend(exists) == "WRITE_APPEND"

\* lines 77-81: the write disposition of the load job
WriteDisposition(exists) == IF exists THEN "WRITE_APPEND" ELSE "WRITE_TRUNCATE"

\* Mutant of AfterCall: the wait for the job (line 89) left out.
MutAfterCallNoWait(p) ==
    CASE p = "read_csv" -> "get_table"
      [] p = "get_table" -> "load"
      [] p = "load" -> "verify"
      [] OTHER -> "return"

\* lines 59-93: the statement that follows a collaborator call that returned
AfterCall(p) ==
    CASE p = "read_csv" -> "get_table"
      [] p = "get_table" -> "load"
      [] p = "load" -> "result"
      [] p = "result" -> "verify"
      [] OTHER -> "return"

----------------------------------------------------------------------------
\* State

VARIABLES
    BQ_PROJECT_ID, BQ_DATASET_ID, BQ_TABLE_ID,  \* module globals, set at import
    gcs,            \* storage: object URI -> data rows of the CSV stored there
    bq_tables,      \* warehouse: existing table id -> rows by origin
                    \*   (origin 0: rows older than the run, k: rows of job k)
    bq_tables0,     \* the warehouse as it was at start (never changes)
    jobs,           \* warehouse: load job of invocation i (job_id = i)
    job_history,    \* warehouse: ids of the jobs that ended, in order
    pc,             \* invocation i: the statement it is at
    bucket, name,   \* invocation i: locals of lines 24-25
    table_ref,      \* invocation i: local of line 52
    df,             \* invocation i: len(df), local of line 59 (-1: unbound)
    table_exists,   \* invocation i: local of lines 64-69
    calls,          \* invocation i: collaborator calls made, with outcomes
    resp            \* invocation i: the response returned

vars == << BQ_PROJECT_ID, BQ_DATASET_ID, BQ_TABLE_ID, gcs, bq_tables,
           bq_tables0, jobs, job_history, pc, bucket, name, table_ref, df,
           table_exists, calls, resp >>

config == << BQ_PROJECT_ID, BQ_DATASET_ID, BQ_TABLE_ID, bq_tables0 >>
locals == << bucket, name, table_ref, df, table_exists >>

\* Mutant of ConfigComplete: the table identifier not tested.
MutConfigCompleteNoTable == Truthy(BQ_PROJECT_ID) /\ Truthy(BQ_DATASET_ID)

\* line 48: BQ_PROJECT_ID and BQ_DATASET_ID and BQ_TABLE_ID
ConfigComplete ==
    Truthy(BQ_PROJECT_ID) /\ Truthy(BQ_DATASET_ID) /\ Truthy(BQ_TABLE_ID)

\* The objects whose creation the events announce.
StoredUris == { Uri(BucketB, NameCsv), Uri(BucketB, NameUpperExt) }

Origins == 0..NumInvocations
NoRows == [k \in Origins |-> 0]

NoJob == [state |-> "NONE", dest |-> None, rows |-> 0, mode |-> "NONE"]

NoResponse ==
    [code |-> 0, text |-> "", file |-> None, rows_loaded |-> 0,
     bq_table |-> None, table_created_now |-> FALSE, job_id |-> 0]

\* return "<text>", <code>  (lines 31, 36, 40, 50)
TextResponse(text, code) == [NoResponse EXCEPT !.code = code, !.text = text]

\* line 94: dest_table.num_rows, the rows of a table whatever their origin
RECURSIVE SumRows(_, _)
SumRows(rows, k) == IF k < 0 THEN 0 ELSE rows[k] + SumRows(rows, k - 1)
NumRows(ref) ==
    IF ref \in DOMAIN bq_tables THEN SumRows(bq_tables[ref], NumInvocations) ELSE 0

\* Mutant of SuccessResponse: rows_loaded taken from the table's row count.
MutSuccessResponseTableRows(i) ==
    [code |-> 200, text |-> "success", file |-> name[i],
     rows_loaded |-> NumRows(table_ref[i]), bq_table |-> table_ref[i],
     table_created_now |-> ~table_exists[i], job_id |-> i]

\* lines 96-103: the jsonify body and 200
SuccessResponse(i) ==
    [code |-> 200, text |-> "success", file |-> name[i],
     rows_loaded |-> df[i], bq_table |-> table_ref[i],
     table_created_now |-> ~table_exists[i], job_id |-> i]

Init ==
    /\ BQ_PROJECT_ID \in ProjectValues
    /\ BQ_DATASET_ID \in DatasetValues
    /\ BQ_TABLE_ID \in TableValues
    /\ gcs \in [StoredUris -> 0..MaxRows]
    /\ bq_tables \in
         {<<>>} \cup
         (IF ConfigComplete
            THEN { TableRef(BQ_PROJECT_ID, BQ_DATASET_ID, BQ_TABLE_ID)
                       :> [NoRows EXCEPT ![0] = 1] }
            ELSE {})
    /\ bq_tables0 = bq_tables
    /\ jobs = [i \in Invocations |-> NoJob]
    /\ job_history = <<>>
    /\ pc = [i \in Invocations |-> "idle"]
    /\ bucket = [i \in Invocations |-> None]
    /\ name = [i \in Invocations |-> None]
    /\ table_ref = [i \in Invocations |-> None]
    /\ df = [i \in Invocations |-> -1]
    /\ table_exists = [i \in Invocations |-> TRUE]
    /\ calls = [i \in Invocations |-> <<>>]
    /\ resp = [i \in Invocations |-> NoResponse]

----------------------------------------------------------------------------
\* Steps of one invocation

\* A return statement: the invocation ends with response r.
Return(i, r) ==
    /\ pc' = [pc EXCEPT ![i] = "done"]
    /\ resp' = [resp EXCEPT ![i] = r]

\* Mutant of Raise: the except block answers instead of raising again.
MutRaiseSwallowed(i) == Return(i, TextResponse("", 204))

\* lines 105-112: any exception is logged and raised again; the invocation
\* ends without a response.
Raise(i) ==
    /\ pc' = [pc EXCEPT ![i] = "raised"]
    /\ UNCHANGED resp

\* A collaborator call that returned: control moves to the next statement.
Continue(i) ==
    /\ pc' = [pc EXCEPT ![i] = AfterCall(pc[i])]
    /\ UNCHANGED resp

\* The record of one collaborator call.
Called(i, op, arg, out) ==
    calls' = [calls EXCEPT ![i] = Append(@, [op |-> op, arg |-> arg, out |-> out])]

\* lines 19-57: the event arrives; payload validation, filter, configuration
\* check and the two f-strings, none of which calls a collaborator.
Receive(i, ev) ==
    /\ pc[i] = "idle"
    /\ \A j \in Invocations : j < i => pc[j] # "idle"
    /\ bucket' = [bucket EXCEPT ![i] = ev.bucket]
    /\ name' = [name EXCEPT ![i] = ev.name]
    /\ IF BadPayload(ev.bucket, ev.name)
         THEN /\ Return(i, TextResponse("Bad event payload: missing bucket or name", 400))
              /\ UNCHANGED table_ref
         ELSE IF ~PassesFilter(ev.name)
         THEN /\ Return(i, TextResponse("", 204))
              /\ UNCHANGED table_ref
         ELSE IF ~ConfigComplete
         THEN /\ Return(i, TextResponse("Missing env vars: BQ_PROJECT_ID, BQ_DATASET_ID, BQ_TABLE_ID", 500))
              /\ UNCHANGED table_ref
         ELSE /\ table_ref' = [table_ref EXCEPT ![i] =
                     TableRef(BQ_PROJECT_ID, BQ_DATASET_ID, BQ_TABLE_ID)]
              /\ pc' = [pc EXCEPT ![i] = "read_csv"]
              /\ UNCHANGED resp
    /\ UNCHANGED << config, gcs, bq_tables, jobs, job_history, df,
                    table_exists, calls >>

\* line 59: df = pd.read_csv(uri); the read returns the object's rows or raises.
ReadCsv(i) ==
    /\ pc[i] = "read_csv"
    /\ LET uri == Uri(bucket[i], name[i]) IN
         \/ /\ uri \in DOMAIN gcs
            /\ df' = [df EXCEPT ![i] = gcs[uri]]
            /\ Called(i, "read_csv", uri, "ok")
            /\ Continue(i)
         \/ /\ Called(i, "read_csv", uri, "error")
            /\ Raise(i)
            /\ UNCHANGED df
    /\ UNCHANGED << config, gcs, bq_tables, jobs, job_history, bucket, name,
                    table_ref, table_exists >>

\* lines 64-70: the existence check; NotFound is caught, anything else raises.
GetTable(i) ==
    /\ pc[i] = "get_table"
    /\ \/ /\ table_ref[i] \in DOMAIN bq_tables
          /\ table_exists' = [table_exists EXCEPT ![i] = TRUE]
          /\ Called(i, "get_table", table_ref[i], "Found")
          /\ Continue(i)
       \/ /\ table_ref[i] \notin DOMAIN bq_tables
          /\ table_exists' = [table_exists EXCEPT ![i] = FALSE]
          /\ Called(i, "get_table", table_ref[i], "NotFound")
          /\ Continue(i)
       \/ /\ table_exists' = [table_exists EXCEPT ![i] = TRUE]
          /\ Called(i, "get_table", table_ref[i], "error")
          /\ Raise(i)
    /\ UNCHANGED << config, gcs, bq_tables, jobs, job_history, bucket, name,
                    table_ref, df >>

\* lines 73-88: the load job is configured and submitted (or the submission
\* raises); the warehouse runs it on its own.
Load(i) ==
    /\ pc[i] = "load"
    /\ \/ /\ jobs' = [jobs EXCEPT ![i] =
                 [state |-> "RUNNING", dest |-> table_ref[i], rows |-> df[i],
                  mode |-> WriteDisposition(table_exists[i])]]
          /\ Called(i, "load_table_from_dataframe", table_ref[i], "ok")
          /\ Continue(i)
       \/ /\ Called(i, "load_table_from_dataframe", table_ref[i], "error")
          /\ Raise(i)
          /\ UNCHANGED jobs
    /\ UNCHANGED << config, gcs, bq_tables, job_history, locals >>

\* line 89: load_job.result() blocks until the job has ended, and raises if
\* the job failed.
Result(i) ==
    /\ pc[i] = "result"
    /\ \/ /\ jobs[i].state = "DONE"
          /\ Called(i, "result", i, "ok")
          /\ Continue(i)
       \/ /\ jobs[i].state = "FAILED"
          /\ Called(i, "result", i, "error")
          /\ Raise(i)
    /\ UNCHANGED << config, gcs, bq_tables, jobs, job_history, locals >>

\* lines 93-103: the destination table is fetched again for its row count,
\* which is printed; then the success response is returned.
Verify(i) ==
    /\ pc[i] = "verify"
    /\ \/ /\ table_ref[i] \in DOMAIN bq_tables
          /\ Called(i, "get_table", table_ref[i], "Found")
          /\ Return(i, SuccessResponse(i))
       \/ /\ Called(i, "get_table", table_ref[i], "error")
          /\ Raise(i)
    /\ UNCHANGED << config, gcs, bq_tables, jobs, job_history, locals >>

----------------------------------------------------------------------------
\* The warehouse

\* The table after a load job of the given mode has committed; the table is
\* created if needed (create_disposition defaults to CREATE_IF_NEEDED).
ApplyLoad(tables, job, id) ==
    LET old == IF job.dest \in DOMAIN tables THEN tables[job.dest] ELSE NoRows
        new == IF job.mode = "WRITE_TRUNCATE"
                 THEN [NoRows EXCEPT ![id] = job.rows]
                 ELSE [old EXCEPT ![id] = @ + job.rows]
    IN  [r \in DOMAIN tables \cup {job.dest} |->
            IF r = job.dest THEN new ELSE tables[r]]

\* A submitted job ends: it commits atomically, or fails and changes nothing.
JobRun(i) ==
    /\ jobs[i].state = "RUNNING"
    /\ \/ /\ jobs' = [jobs EXCEPT ![i].state = "DONE"]
          /\ bq_tables' = ApplyLoad(bq_tables, jobs[i], i)
       \/ /\ jobs' = [jobs EXCEPT ![i].state = "FAILED"]
          /\ UNCHANGED bq_tables
    /\ job_history' = Append(job_history, i)
    /\ UNCHANGED << config, gcs, pc, locals, calls, resp >>

----------------------------------------------------------------------------
\* Specifications

\* Invocation i is between its event and its return or raise.
Active(i) == pc[i] \notin {"idle", "done", "raised"}

Step(i) ==
    \/ ReadCsv(i)
    \/ GetTable(i)
    \/ Load(i)
    \/ JobRun(i)
    \/ Result(i)
    \/ Verify(i)

\* Concurrent delivery: the runtime may dispatch an event at any time.
Next ==
    \E i \in Invocations :
        \/ \E ev \in Events : Receive(i, ev)
        \/ Step(i)

Spec == Init /\ [][Next]_vars

\* Sequential delivery: an event is dispatched only when no invocation runs.
NextSeq ==
    \E i \in Invocations :
        \/ \E ev \in Events :
              /\ \A j \in Invocations : ~Active(j)
              /\ Receive(i, ev)
        \/ Step(i)

SeqSpec == Init /\ [][NextSeq]_vars

----------------------------------------------------------------------------
\* Vocabulary of the properties

Ended(i) == pc[i] \in {"done", "raised"}

\* The operations invocation i called, in order.
Ops(i) == [k \in 1..Len(calls[i]) |-> calls[i][k].op]

CountOp(i, op) == Cardinality({ k \in 1..Len(calls[i]) : calls[i][k].op = op })

IsPrefix(s, t) == Len(s) <= Len(t) /\ SubSeq(t, 1, Len(s)) = s

\* Invocation i made no downstream call at all.
NoDownstreamCall(i) == calls[i] = <<>> /\ jobs[i] = NoJob

\* The existence check of invocation i has been answered with `out`.
Checked(i, out) ==
    \E k \in 1..Len(calls[i]) :
        /\ calls[i][k].op = "get_table"
        /\ calls[i][k].out = out
        /\ \A m \in 1..(k - 1) : calls[i][m].op # "get_table"

\* The configured "{project}.{dataset}.{table}" join.
ConfiguredTable ==
    BQ_PROJECT_ID \o <<".">> \o BQ_DATASET_ID \o <<".">> \o BQ_TABLE_ID

\* Position of job i in the order in which jobs ended (0: not ended).
EndedAt(i) ==
    IF \E k \in 1..Len(job_history) : job_history[k] = i
      THEN CHOOSE k \in 1..Len(job_history) : job_history[k] = i
      ELSE 0

----------------------------------------------------------------------------
\* C1: every load job submitted has the mode that its own invocation's
\* existence check decides: WRITE_APPEND iff the check found the table,
\* WRITE_TRUNCATE iff it reported not-found; two jobs whose checks agree have
\* the same mode, whatever their events, payloads or order.
C1_ModeFromExistenceCheck ==
    /\ \A i \in Invocations :
          jobs[i].state # "NONE" =>
             /\ Checked(i, "Found") \/ Checked(i, "NotFound")
             /\ jobs[i].mode = "WRITE_APPEND" <=> Checked(i, "Found")
             /\ jobs[i].mode = "WRITE_TRUNCATE" <=> Checked(i, "NotFound")
    /\ \A i, j \in Invocations :
          /\ jobs[i].state # "NONE"
          /\ jobs[j].state # "NONE"
          /\ Checked(i, "Found") <=> Checked(j, "Found")
          => jobs[i].mode = jobs[j].mode

\* Two jobs of one run with different modes, of different events and payloads.
C1_Witness ==
    \E i, j \in Invocations :
        /\ jobs[i].mode = "WRITE_TRUNCATE" /\ Checked(i, "NotFound")
        /\ jobs[j].mode = "WRITE_APPEND" /\ Checked(j, "Found")
        /\ name[i] # name[j]
        /\ jobs[i].rows # jobs[j].rows

\* C2: an event with non-empty bucket and name whose name does not start with
\* "raw_data/" (case-sensitive) or does not end in ".csv" (case-insensitive)
\* is answered with the empty body and 204, and no storage read, warehouse
\* query or load job is made for it, whatever the configuration.
C2_FilteredOutSkips ==
    \A i \in Invocations :
        /\ pc[i] # "idle"
        /\ Truthy(bucket[i])
        /\ Truthy(name[i])
        /\ \/ ~startswith(name[i], RawDataPrefix)
           \/ ~endswith(lower(name[i]), CsvSuffix)
        => /\ pc[i] = "done"
           /\ resp[i] = TextResponse("", 204)
           /\ NoDownstreamCall(i)

\* Under an incomplete configuration, a name with the wrong prefix case and a
\* name with another extension were both skipped.
C2_Witness ==
    /\ ~ConfigComplete
    /\ \E i, j \in Invocations :
          /\ name[i] = NameUpperPrefix /\ resp[i].code = 204
          /\ name[j] = NameTxt /\ resp[j].code = 204

\* C3: an event whose bucket or name is missing or empty is answered with
\* 400 and no downstream call is made, whatever the name's path or extension
\* and whatever the configuration.
C3_BadPayloadRejected ==
    \A i \in Invocations :
        /\ pc[i] # "idle"
        /\ ~Truthy(bucket[i]) \/ ~Truthy(name[i])
        => /\ pc[i] = "done"
           /\ resp[i] = TextResponse("Bad event payload: missing bucket or name", 400)
           /\ NoDownstreamCall(i)

\* An empty bucket with a name the filter would skip, under an incomplete
\* configuration, and an empty name: both got 400.
C3_Witness ==
    /\ ~ConfigComplete
    /\ \E i, j \in Invocations :
          /\ bucket[i] = <<>> /\ name[i] = NameTxt /\ resp[i].code = 400
          /\ bucket[j] = BucketB /\ name[j] = <<>> /\ resp[j].code = 400

\* C4: when one of the three identifiers is missing or empty, every event
\* that passes validation and the filter is answered with 500, and no
\* invocation makes a storage read, warehouse query or load-job submission.
C4_IncompleteConfigurationRejected ==
    (BQ_PROJECT_ID \in {None, <<>>} \/ BQ_DATASET_ID \in {None, <<>>}
        \/ BQ_TABLE_ID \in {None, <<>>})
    => \A i \in Invocations :
          /\ NoDownstreamCall(i)
          /\ ( /\ pc[i] # "idle"
               /\ Truthy(bucket[i])
               /\ Truthy(name[i])
               /\ startswith(name[i], RawDataPrefix)
               /\ endswith(lower(name[i]), CsvSuffix) )
             => /\ pc[i] = "done"
                /\ resp[i].code = 500
                /\ resp[i].text = "Missing env vars: BQ_PROJECT_ID, BQ_DATASET_ID, BQ_TABLE_ID"

\* Only the table identifier is missing, and a CSV event got 500.
C4_Witness ==
    /\ Truthy(BQ_PROJECT_ID) /\ Truthy(BQ_DATASET_ID) /\ BQ_TABLE_ID = None
    /\ \E i \in Invocations : name[i] = NameUpperExt /\ resp[i].code = 500

\* Every collaborator call that invocations 1..i made returned, and every
\* job they submitted committed.
AllCallsSucceeded(i) ==
    \A j \in 1..i :
        /\ \A k \in 1..Len(calls[j]) : calls[j][k].out # "error"
        /\ jobs[j].state \in {"NONE", "DONE"}
        /\ pc[j] # "raised"

\* C5: under sequential delivery to a table that does not exist at first,
\* with every collaborator call succeeding, the first invocation to load
\* uses create/replace and returns rows_loaded = N (the data rows of its CSV)
\* and table_created_now = true; every later one appends and returns
\* rows_loaded = N and table_created_now = false.
C5_SequentialCreateThenAppend ==
    \A i \in Invocations :
        /\ resp[i].code = 200
        /\ bq_tables0 = <<>>
        /\ AllCallsSucceeded(i)
        => LET first == \A j \in 1..(i - 1) : resp[j].code # 200 IN
           /\ resp[i].rows_loaded = gcs[Uri(bucket[i], name[i])]
           /\ resp[i].table_created_now = first
           /\ jobs[i].mode = IF first THEN "WRITE_TRUNCATE" ELSE "WRITE_APPEND"

\* The same CSV, with data rows, delivered twice: created, then appended.
C5_Witness ==
    /\ bq_tables0 = <<>>
    /\ \E i, j \in Invocations :
          /\ i < j
          /\ AllCallsSucceeded(j)
          /\ name[i] = name[j] /\ bucket[i] = bucket[j]
          /\ resp[i].code = 200 /\ resp[j].code = 200
          /\ resp[i].table_created_now /\ ~resp[j].table_created_now
          /\ resp[i].rows_loaded > 0
          /\ resp[j].rows_loaded = resp[i].rows_loaded
          /\ bq_tables[table_ref[i]][i] = bq_tables[table_ref[i]][j]

\* C6: a success response names the configured table, and the existence
\* check, the load job and the post-load query of that invocation all
\* addressed that same identifier.
C6_SuccessNamesConfiguredTable ==
    \A i \in Invocations :
        resp[i].code = 200 =>
           /\ resp[i].bq_table = ConfiguredTable
           /\ jobs[i].dest = ConfiguredTable
           /\ \A k \in 1..Len(calls[i]) :
                 calls[i][k].op \in {"get_table", "load_table_from_dataframe"}
                 => calls[i][k].arg = ConfiguredTable
           /\ CountOp(i, "get_table") = 2
           /\ CountOp(i, "load_table_from_dataframe") = 1

\* A success that names "p.d.t", after a load into it and two queries of it.
C6_Witness ==
    \E i \in Invocations :
        /\ resp[i].code = 200
        /\ resp[i].bq_table = <<"p", ".", "d", ".", "t">>
        /\ jobs[i].dest = <<"p", ".", "d", ".", "t">>
        /\ jobs[i].state = "DONE"

\* The k-th call of invocation i is one of the failures C7 is about: the
\* storage read, the existence check, the submission or the job itself.
FailedBeforeCommit(i, k) ==
    /\ calls[i][k].out = "error"
    /\ \/ calls[i][k].op \in {"read_csv", "load_table_from_dataframe", "result"}
       \/ calls[i][k].op = "get_table" /\ CountOp(i, "result") = 0

\* C7: a failed storage read, a failed existence check (other than
\* not-found) or a failed load job ends the invocation by raising: no
\* response is returned, the failed call is the invocation's last, and after
\* a failed read or existence check no load job exists.
C7_FailuresPropagate ==
    \A i \in Invocations :
        \A k \in 1..Len(calls[i]) :
            FailedBeforeCommit(i, k) =>
               /\ pc[i] = "raised"
               /\ resp[i] = NoResponse
               /\ k = Len(calls[i])
               /\ calls[i][k].op \in {"read_csv", "get_table"} => jobs[i] = NoJob
               /\ jobs[i].state # "DONE"

\* One invocation raised from a failed job, another from a failed existence
\* check, before any job of its own.
C7_Witness ==
    \E i, j \in Invocations :
        /\ jobs[i].state = "FAILED"
        /\ pc[i] = "raised"
        /\ calls[i][Len(calls[i])] = [op |-> "result", arg |-> i, out |-> "error"]
        /\ pc[j] = "raised"
        /\ Len(calls[j]) = 2
        /\ calls[j][2].op = "get_table" /\ calls[j][2].out = "error"
        /\ jobs[j] = NoJob

\* C8: two invocations whose existence checks both reported not-found both
\* submit WRITE_TRUNCATE jobs, and once both jobs have committed, the rows of
\* the job that ended first are gone from the table; both invocations, if
\* they return, report table_created_now = true.
C8_ConcurrentCreateLosesUpdate ==
    \A i, j \in Invocations :
        /\ i # j
        /\ Checked(i, "NotFound") /\ Checked(j, "NotFound")
        /\ jobs[i].state = "DONE" /\ jobs[j].state = "DONE"
        /\ EndedAt(i) < EndedAt(j)
        => /\ jobs[i].mode = "WRITE_TRUNCATE"
           /\ jobs[j].mode = "WRITE_TRUNCATE"
           /\ bq_tables[table_ref[i]][i] = 0
           /\ resp[i].code = 200 => resp[i].table_created_now
           /\ resp[j].code = 200 => resp[j].table_created_now

\* The race: both saw no table, both loaded rows, both returned success with
\* table_created_now, and the table holds the rows of one of them only.
C8_Witness ==
    \E i, j \in Invocations :
        /\ i # j
        /\ table_ref[i] = table_ref[j]
        /\ Checked(i, "NotFound") /\ Checked(j, "NotFound")
        /\ jobs[i].mode = "WRITE_TRUNCATE" /\ jobs[j].mode = "WRITE_TRUNCATE"
        /\ resp[i].code = 200 /\ resp[i].table_created_now /\ resp[i].rows_loaded > 0
        /\ resp[j].code = 200 /\ resp[j].table_created_now /\ resp[j].rows_loaded > 0
        /\ bq_tables[table_ref[i]][i] = 0
        /\ bq_tables[table_ref[j]][j] = resp[j].rows_loaded

\* C9: once the load job has committed, the outcome does not depend on the
\* post-load query: a success reports the row count of the parsed payload,
\* and the invocation does not end as a failure.
C9_PostLoadQueryIsBestEffort ==
    \A i \in Invocations :
        jobs[i].state = "DONE" /\ CountOp(i, "result") = 1 =>
           /\ resp[i].code = 200 => resp[i].rows_loaded = jobs[i].rows
           /\ pc[i] # "raised"

\* The order of the handler's collaborator calls.
CallOrder ==
    << "read_csv", "get_table", "load_table_from_dataframe", "result", "get_table" >>

\* C10: an invocation makes at most one storage read, two table queries and
\* one load submission, in the order read, existence check, submission,
\* wait, post-load query, none of them twice; and it returns success only
\* after its job has committed and result() has returned.
C10_CallsOnceInOrder ==
    \A i \in Invocations :
        /\ CountOp(i, "read_csv") <= 1
        /\ CountOp(i, "get_table") <= 2
        /\ CountOp(i, "load_table_from_dataframe") <= 1
        /\ CountOp(i, "result") <= 1
        /\ IsPrefix(Ops(i), CallOrder)
        /\ resp[i].code = 200 =>
              /\ jobs[i].state = "DONE"
              /\ Ops(i) = CallOrder
              /\ calls[i][4] = [op |-> "result", arg |-> i, out |-> "ok"]

\* A success after all five calls, and a failure that stopped after three.
C10_Witness ==
    \E i, j \in Invocations :
        /\ resp[i].code = 200 /\ Ops(i) = CallOrder
        /\ pc[j] = "raised" /\ Len(calls[j]) = 3

====
